---- MODULE Spec2Model ----
(***************************************************************************)
(* Model of hgdp_tgp_reference/hgdp_tgp_pca_intersection.py: the four      *)
(* pipeline stages (ref_filtering, intersect_target_ref, ld_prune_filter,  *)
(* run_pca), main's sequencing of them, and the checkpoints they read and  *)
(* write.  The Hail operations the script calls are modelled by what they  *)
(* do to a matrix (its row keys and its columns) and to the paths written. *)
(***************************************************************************)
EXTENDS Integers, Sequences, FiniteSets, TLC

VARIABLES pass_mt, pass_unrel_mt, intersect_out, prune_out, pca_out, call, run

vars == <<pass_mt, pass_unrel_mt, intersect_out, prune_out, pca_out, call, run>>

(***************************************************************************)
(* The reference data.  A sample id stands for one sample, except G, which *)
(* stands for NBulk samples sharing annotations and genotypes.             *)
(***************************************************************************)
NBulk == 498

Samples == {"S1", "S2", "S3", "S4", "S5", "G"}

Size == [s \in Samples |-> IF s = "G" THEN NBulk ELSE 1]

\* Field names of the sample_filters struct of each reference matrix, as
\* sequences of name parts: <<"fail_", "n_snp">> is the field fail_n_snp.
SampleFilterFields ==
    [r \in {"refA", "refB"} |->
        IF r = "refA"
        THEN {<<"qc_metrics_filters">>, <<"hard_filtered">>,
              <<"fail_", "n_snp">>, <<"fail_", "n_", "fail_", "het">>}
        ELSE {<<"qc_metrics_filters">>, <<"hard_filtered">>,
              <<"fail_", "n_", "fail_", "het">>}]

\* sample_filters.qc_metrics_filters of each sample.
QcMetricsFilters ==
    [s \in Samples |->
        CASE s = "S1" -> {<<"contamination">>}
          [] s = "S4" -> {<<"n_snp">>}
          [] s = "S5" -> {<<"n_", "het">>}
          [] OTHER -> {}]

\* The rows of a reference matrix, in key order.  Keys are on GRCh38.
Contig == <<"chr1", "chr1", "chr1", "chr1", "chr1", "chr1", "chr1", "chr1", "chr2", "chr2">>

Position == <<1065, 1065, 1165, 3000, 4000, 5000, 501065, 501066, 1065, 2000>>

Alleles == << <<"A", "G">>, <<"G", "A">>, <<"C", "T">>, <<"C", "G">>, <<"A", "T">>,
              <<"A", "C">>, <<"A", "C">>, <<"G", "T">>, <<"A", "G">>, <<"C", "T">> >>

Variants == DOMAIN Contig

\* The row field filters (the variant QC outcome).
VariantFilters == [v \in Variants |-> IF v = 4 THEN {"AC0"} ELSE {}]

\* Genotype calls: the number of alternate alleles, or Missing.
Missing == 0 - 1

GT ==
    [v \in Variants |->
        CASE v = 1  -> [S1 |-> 1, S2 |-> 0, S3 |-> 2, S4 |-> 0, S5 |-> 1, G |-> 1]
          [] v = 2  -> [S1 |-> 0, S2 |-> 1, S3 |-> 0, S4 |-> 2, S5 |-> 1, G |-> Missing]
          [] v = 3  -> [S1 |-> 1, S2 |-> 0, S3 |-> 2, S4 |-> 1, S5 |-> 2, G |-> 2]
          [] v = 4  -> [S1 |-> 0, S2 |-> 1, S3 |-> 0, S4 |-> 0, S5 |-> 0, G |-> 0]
          [] v = 5  -> [S1 |-> 0, S2 |-> 1, S3 |-> 0, S4 |-> 0, S5 |-> 1, G |-> 0]
          [] v = 6  -> [S1 |-> 2, S2 |-> 1, S3 |-> 2, S4 |-> 2, S5 |-> 2, G |-> 2]
          [] v = 7  -> [S1 |-> 1, S2 |-> 0, S3 |-> 2, S4 |-> 1, S5 |-> 2, G |-> 2]
          [] v = 8  -> [S1 |-> 1, S2 |-> 0, S3 |-> 2, S4 |-> 0, S5 |-> 1, G |-> 1]
          [] v = 9  -> [S1 |-> 1, S2 |-> 0, S3 |-> 2, S4 |-> 0, S5 |-> 1, G |-> 1]
          [] OTHER  -> [S1 |-> 1, S2 |-> 1, S3 |-> 1, S4 |-> 1, S5 |-> 1, G |-> 1]]

\* The row key of a matrix row: (locus, alleles).
RowKey(v) == <<Contig[v], Position[v], Alleles[v]>>

(***************************************************************************)
(* Files.  A matrix table is its row set and its column set; NoFile is a   *)
(* path that holds nothing.                                                *)
(***************************************************************************)
NoFile == [exists |-> FALSE, rows |-> {}, cols |-> {}]

Mt(rows, cols) == [exists |-> TRUE, rows |-> rows, cols |-> cols]

RefMatrix == Mt(Variants, Samples)

\* hl.read_matrix_table(ref_mt): the path may not exist.
RefMts == {"refA", "refB", "missing"}

\* --unrel_mt: the columns of the table of unrelated samples.
UnrelMts == {"U1", "U2", "missing"}

UnrelCols(u) == IF u = "U1" THEN {"S1", "S2", "S3", "S4", "G"} ELSE {"S1", "S2", "S3"}

\* --outliers: the s column of the outlier table.
OutlierTables == {"O1", "O2"}

OutlierIds(o) == IF o = "O1" THEN {"S3"} ELSE {"S3", "S4"}

\* --snp_list: rows of chr, pos, ref, alt.
SnpLists == {"P38", "P37"}

SnpList(p) ==
    IF p = "P38"
    THEN {<<"chr1", 1065, "A", "G">>, <<"chr1", 1165, "C", "T">>, <<"chr1", 4000, "A", "T">>,
          <<"chr1", 501066, "G", "T">>, <<"chr2", 2000, "C", "T">>, <<"chr1", 777, "A", "C">>}
    ELSE {<<"1", 1000, "A", "G">>, <<"1", 1100, "C", "T">>, <<"1", 4900, "A", "C">>,
          <<"1", 2000, "A", "C">>, <<"2", 1000, "A", "G">>, <<"1", 500900, "A", "C">>}

\* --grch37_or_grch38
Labels == {"grch38", "GRCh37", "hg19"}

(***************************************************************************)
(* ref_filtering                                                           *)
(***************************************************************************)
\* x.startswith('fail_')
startswith_fail(x) == Len(x) > 0 /\ x[1] = "fail_"

\* re.sub('fail_', '', x): every occurrence is removed, not only the prefix.
re_sub_fail(x) == SelectSeq(x, LAMBDA part : part # "fail_")

bad_sample_filters(ref) ==
    {re_sub_fail(x) : x \in {y \in SampleFilterFields[ref] : startswith_fail(y)}}

\* mt.filter_cols(qc_metrics_filters.difference(bad_sample_filters).length() == 0)
QcPassCols(ref, cols) ==
    {s \in cols : Cardinality(QcMetricsFilters[s] \ bad_sample_filters(ref)) = 0}

\* mt.checkpoint(path, overwrite, _read_if_exists): the matrix the call returns.
\* With _read_if_exists and something at the path, that is read and nothing is
\* written; otherwise the matrix is written as by write().
CheckpointReads(file, read_if_exists) == read_if_exists /\ file.exists

\* mt.write(path, overwrite) raises when the path holds something and overwrite
\* is unset.
WriteRefused(file, overwrite) == file.exists /\ ~overwrite

\* filter_rows(filters.length() == 0), then the unrelated samples, then without
\* the outliers.
UnrelNonOutliers(mt, unrel, outliers) ==
    Mt({v \in mt.rows : Cardinality(VariantFilters[v]) = 0},
       {s \in mt.cols : s \in UnrelCols(unrel) /\ s \notin OutlierIds(outliers)})

NoCall == [stage |-> 0, status |-> "ok", reused |-> FALSE, overwrite |-> FALSE,
           ref |-> "-", unrel |-> "-", outliers |-> "-", snp_list |-> "-", label |-> "-"]

ref_filtering(ref, unrel, outliers, overwrite) ==
    LET made == [NoCall EXCEPT !.stage = 1, !.overwrite = overwrite, !.ref = ref,
                               !.unrel = unrel, !.outliers = outliers]
        mt_qc == Mt(RefMatrix.rows, QcPassCols(ref, RefMatrix.cols))
        reads == CheckpointReads(pass_mt, TRUE)
        mt_filt == IF reads THEN pass_mt ELSE mt_qc
        result == UnrelNonOutliers(mt_filt, unrel, outliers)
    IN  /\ UNCHANGED <<intersect_out, prune_out, pca_out>>
        /\ IF ref = "missing"
           THEN /\ call' = [made EXCEPT !.status = "FileNotFound"]
                /\ UNCHANGED <<pass_mt, pass_unrel_mt>>
           ELSE /\ pass_mt' = mt_filt
                /\ IF unrel = "missing"
                   THEN /\ call' = [made EXCEPT !.status = "FileNotFound", !.reused = reads]
                        /\ UNCHANGED pass_unrel_mt
                   ELSE IF WriteRefused(pass_unrel_mt, overwrite)
                   THEN /\ call' = [made EXCEPT !.status = "FileExists", !.reused = reads]
                        /\ UNCHANGED pass_unrel_mt
                   ELSE /\ call' = [made EXCEPT !.reused = reads]
                        /\ pass_unrel_mt' = result

(***************************************************************************)
(* intersect_target_ref                                                    *)
(***************************************************************************)
\* str.lower() on the labels passed.
lower(label) ==
    CASE label = "GRCh37" -> "grch37"
      [] label = "GRCh38" -> "grch38"
      [] OTHER -> label

\* The contigs of each reference genome: hl.locus raises on any other.
GenomeContigs(rg) == IF rg = "GRCh37" THEN {"1", "2"} ELSE {"chr1", "chr2"}

ValidLoci(snp_list, rg) == \A e \in SnpList(snp_list) : e[1] \in GenomeContigs(rg)

\* The GRCh37 to GRCh38 chain added by load_liftover: hl.liftover gives a locus,
\* or a missing value where the chain maps nothing.
Unmapped == <<"-", 0>>

liftover(contig, pos) ==
    CASE contig = "1" /\ pos = 1000 -> <<"chr1", 1065>>
      [] contig = "1" /\ pos = 1100 -> <<"chr1", 1165>>
      [] contig = "1" /\ pos = 4900 -> <<"chr1", 5000>>
      [] contig = "1" /\ pos = 500900 -> <<"chr1", 501065>>
      [] contig = "2" /\ pos = 1000 -> <<"chr2", 1065>>
      [] OTHER -> Unmapped

\* snp_list.key_by(locus, alleles=[ref, alt]) on GRCh38.
Keys38(snp_list) == {<<e[1], e[2], <<e[3], e[4]>> >> : e \in SnpList(snp_list)}

\* The GRCh37 list annotated with new_locus, filtered to the defined ones and
\* keyed by (new_locus, alleles).
Keys37(snp_list) ==
    {<<liftover(e[1], e[2])[1], liftover(e[1], e[2])[2], <<e[3], e[4]>> >> :
        e \in {x \in SnpList(snp_list) : liftover(x[1], x[2]) # Unmapped}}

\* mt.filter_rows(hl.is_defined(keyed[mt.row_key]))
SemiJoin(mt, keys) == Mt({v \in mt.rows : RowKey(v) \in keys}, mt.cols)

\* The matrix the two branches leave in mt; no branch is taken for another label.
Intersected(mt, snp_list, label) ==
    IF lower(label) = "grch38" THEN SemiJoin(mt, Keys38(snp_list))
    ELSE IF lower(label) = "grch37" THEN SemiJoin(mt, Keys37(snp_list))
    ELSE mt

\* Evaluating the keyed list raises when a row's contig is not of the genome.
LocusError(snp_list, label) ==
    \/ lower(label) = "grch38" /\ ~ValidLoci(snp_list, "GRCh38")
    \/ lower(label) = "grch37" /\ ~ValidLoci(snp_list, "GRCh37")

intersect_target_ref(snp_list, label, overwrite) ==
    LET made == [NoCall EXCEPT !.stage = 2, !.overwrite = overwrite,
                               !.snp_list = snp_list, !.label = label]
        reads == CheckpointReads(intersect_out, ~overwrite)
    IN  /\ UNCHANGED <<pass_mt, pass_unrel_mt, prune_out, pca_out>>
        /\ IF ~pass_unrel_mt.exists
           THEN /\ call' = [made EXCEPT !.status = "FileNotFound"]
                /\ UNCHANGED intersect_out
           ELSE IF reads
           THEN /\ call' = [made EXCEPT !.reused = TRUE]
                /\ UNCHANGED intersect_out
           ELSE IF LocusError(snp_list, label)
           THEN /\ call' = [made EXCEPT !.status = "InvalidLocus"]
                /\ UNCHANGED intersect_out
           ELSE /\ call' = made
                /\ intersect_out' = Intersected(pass_unrel_mt, snp_list, label)

(***************************************************************************)
(* ld_prune_filter                                                         *)
(***************************************************************************)
RECURSIVE SumOver(_, _)
\* The sum of f[x] over the finite set S.
SumOver(f, S) ==
    IF S = {} THEN 0
    ELSE LET x == CHOOSE y \in S : TRUE IN f[x] + SumOver(f, S \ {x})

\* hl.variant_qc: n_called, the samples of cols with a call at v.
NCalled(v, cols) == SumOver(Size, {s \in cols : GT[v][s] # Missing})

\* AC[1], the alternate alleles among the calls at v.
AltCount(v, cols) ==
    SumOver([s \in Samples |-> Size[s] * GT[v][s]], {s \in cols : GT[v][s] # Missing})

\* AN = 2 * n_called, and AC[0] = AN - AC[1] at a biallelic row.
AN(v, cols) == 2 * NCalled(v, cols)

RefCount(v, cols) == AN(v, cols) - AltCount(v, cols)

\* 0.001 and 0.999 as AFLow / AFScale and AFHigh / AFScale.
AFScale == 1000

AFLow == 1

AFHigh == 999

\* The boundary frequencies pass too.
AFPassInclusive(v, cols) ==
    /\ AN(v, cols) > 0
    /\ AFScale * RefCount(v, cols) >= AFLow * AN(v, cols)
    /\ AFScale * RefCount(v, cols) <= AFHigh * AN(v, cols)

\* (variant_qc.AF[0] > 0.001) & (variant_qc.AF[0] < 0.999), AF[0] = AC[0] / AN.
\* With no call AF is not a number and neither comparison holds.
AFPass(v, cols) ==
    /\ AFScale * RefCount(v, cols) > AFLow * AN(v, cols)
    /\ AFScale * RefCount(v, cols) < AFHigh * AN(v, cols)

\* The rows variant_qc and the frequency filter keep.
FrequencyFiltered(mt) == Mt({v \in mt.rows : AFPass(v, mt.cols)}, mt.cols)

RECURSIVE RatioGreaterEq(_, _, _, _)
\* a / x >= y / b for a, y >= 0 and x, b > 0, by the whole parts and then the
\* inverted remainders: the products a * b and x * y pass the machine integers.
RatioGreaterEq(a, x, y, b) ==
    IF a \div x # y \div b THEN a \div x > y \div b
    ELSE IF y % b = 0 THEN TRUE
    ELSE IF a % x = 0 THEN FALSE
    ELSE RatioGreaterEq(b, y % b, x, a % x)

Abs(n) == IF n < 0 THEN 0 - n ELSE n

\* The sum over the samples of the products of the calls at u and at v, each
\* centred on the mean of the calls at its row and scaled by n_called of its
\* row; a missing call is imputed to the mean.
Covariance(u, v, cols) ==
    LET nu == NCalled(u, cols)
        au == AltCount(u, cols)
        nv == NCalled(v, cols)
        av == AltCount(v, cols)
    IN  SumOver([s \in Samples |->
                    IF GT[u][s] = Missing \/ GT[v][s] = Missing THEN 0
                    ELSE Size[s] * (nu * GT[u][s] - au) * (nv * GT[v][s] - av)],
                cols)

\* The squared correlation of the calls at u and at v is at least num / den:
\* den * c * c >= num * su * sv for the covariance c and the variances su, sv.
R2AtLeast(u, v, cols, num, den) ==
    LET c == Abs(Covariance(u, v, cols))
        su == Covariance(u, u, cols)
        sv == Covariance(v, v, cols)
    IN  IF su = 0 \/ sv = 0 THEN TRUE
        ELSE IF c = 0 THEN FALSE
        ELSE RatioGreaterEq(den * c, su, num * sv, c)

\* r2=0.8 as R2Num / R2Den, and bp_window_size=500000.
R2Num == 4

R2Den == 5

bp_window_size == 500000

\* r2 = 0.9.
CorrelatedLoose(u, v, cols) == R2AtLeast(u, v, cols, 9, 10)

\* The pair has r2 at or above the r2 passed to hl.ld_prune.
Correlated(u, v, cols) == R2AtLeast(u, v, cols, R2Num, R2Den)

\* Two loci of one contig at most bp_window_size apart.
InWindow(u, v) ==
    Contig[u] = Contig[v] /\ Abs(Position[u] - Position[v]) <= bp_window_size

\* A row ld_prune cannot standardise: no call, or no variance among the calls.
Constant(v, cols) == NCalled(v, cols) = 0 \/ Covariance(v, v, cols) = 0

\* The pairs of rows ld_prune finds in LD: u before v in key order.
LdPairs(rows, cols) ==
    {p \in rows \X rows : p[1] < p[2] /\ InWindow(p[1], p[2]) /\ Correlated(p[1], p[2], cols)}

RECURSIVE LocalPrune(_, _, _)
\* The local pass over the rows of one partition in key order: a row is kept
\* unless it is in LD with a row kept before it.
LocalPrune(todo, kept, pairs) ==
    IF todo = {} THEN kept
    ELSE LET v == CHOOSE x \in todo : \A y \in todo : x <= y
         IN  LocalPrune(todo \ {v},
                        IF \E u \in kept : <<u, v>> \in pairs THEN kept ELSE kept \cup {v},
                        pairs)

\* hl.maximal_independent_set on the pairs left among rows: every set it can keep.
MaximalIndependentSets(rows, pairs) ==
    LET left == {p \in pairs : p[1] \in rows /\ p[2] \in rows}
        linked == {v \in rows : \E p \in left : v = p[1] \/ v = p[2]}
    IN  {(rows \ linked) \cup keep : keep \in
            {some \in SUBSET linked :
                /\ \A p \in left : ~(p[1] \in some /\ p[2] \in some)
                /\ \A v \in linked \ some :
                      \E u \in some : <<u, v>> \in left \/ <<v, u>> \in left}}

\* hl.ld_prune(mt.GT, r2, bp_window_size): the row sets it can return.  The local
\* pass runs per partition (the rows before and from some key), the global pass
\* keeps a maximal independent set of what the local pass left.
ld_prune(rows, cols) ==
    LET usable == {v \in rows : ~Constant(v, cols)}
        pairs == LdPairs(usable, cols)
        local == {LocalPrune({v \in usable : v < cut}, {}, pairs)
                    \cup LocalPrune({v \in usable : v >= cut}, {}, pairs) :
                  cut \in usable \cup {0}}
    IN  UNION {MaximalIndependentSets(kept, pairs) : kept \in local}

ld_prune_filter(overwrite) ==
    LET made == [NoCall EXCEPT !.stage = 3, !.overwrite = overwrite]
        mt_filt == FrequencyFiltered(intersect_out)
    IN  /\ UNCHANGED <<pass_mt, pass_unrel_mt, intersect_out, pca_out>>
        /\ IF ~intersect_out.exists
           THEN /\ call' = [made EXCEPT !.status = "FileNotFound"]
                /\ UNCHANGED prune_out
           ELSE \E pruned \in ld_prune(mt_filt.rows, mt_filt.cols) :
                  IF WriteRefused(prune_out, overwrite)
                  THEN /\ call' = [made EXCEPT !.status = "FileExists"]
                       /\ UNCHANGED prune_out
                  ELSE /\ call' = made
                       /\ prune_out' = Mt({v \in mt_filt.rows : v \in pruned}, mt_filt.cols)

(***************************************************************************)
(* run_pca                                                                 *)
(***************************************************************************)
\* k=20
k == 20

NSamples(mt) == SumOver(Size, mt.cols)

\* hl.hwe_normalized_pca drops the rows with no alternate or no reference allele
\* among the calls before it normalises.
Polymorphic(mt) ==
    {v \in mt.rows : AltCount(v, mt.cols) > 0 /\ AltCount(v, mt.cols) < AN(v, mt.cols)}

\* hl.hwe_normalized_pca raises when it is asked for more components than there
\* are samples, or than it finds eigenvalues (found: it finds k of them).
PcaRaises(mt, found) == NSamples(mt) < k \/ Polymorphic(mt) = {} \/ ~found

\* What the score and loading outputs are computed from.
PcaOf(mt) == Mt(Polymorphic(mt), mt.cols)

PcaFiles == {"scores.ht", "scores.txt.bgz", "loadings.txt.bgz", "loadings.ht",
             "loadings.plink.tsv", "loadings.plink.afreq"}

\* The outputs written before loadings.ht.
ScoreOutputs == {"scores.ht", "scores.txt.bgz", "loadings.txt.bgz"}

Written(files, content) == [f \in PcaFiles |-> IF f \in files THEN content ELSE pca_out[f]]

run_pca(overwrite, found) ==
    LET made == [NoCall EXCEPT !.stage = 4, !.overwrite = overwrite]
    IN  /\ UNCHANGED <<pass_mt, pass_unrel_mt, intersect_out, prune_out>>
        /\ IF ~prune_out.exists
           THEN /\ call' = [made EXCEPT !.status = "FileNotFound"]
                /\ UNCHANGED pca_out
           ELSE IF PcaRaises(prune_out, found)
           THEN /\ call' = [made EXCEPT !.status = "PcaError"]
                /\ UNCHANGED pca_out
           ELSE IF WriteRefused(pca_out["scores.ht"], overwrite)
           THEN /\ call' = [made EXCEPT !.status = "FileExists"]
                /\ UNCHANGED pca_out
           ELSE IF WriteRefused(pca_out["loadings.ht"], overwrite)
           THEN /\ call' = [made EXCEPT !.status = "FileExists"]
                /\ pca_out' = Written(ScoreOutputs, PcaOf(prune_out))
           ELSE /\ call' = made
                /\ pca_out' = Written(PcaFiles, PcaOf(prune_out))

(***************************************************************************)
(* main                                                                    *)
(***************************************************************************)
\* The stages by their place in main.
Stages == 1..4

\* The last stage whose toggle is set.
LastStage(todo) == CHOOSE i \in todo : \A j \in todo : i >= j

\* The next statement of main to run a stage: the first stage whose toggle is
\* set and that has not run yet.
NextStage(todo) == CHOOSE i \in todo : \A j \in todo : i <= j

\* A stage that raises ends main; one that returns leaves the stages after it.
Continue(stage) ==
    run' = [run EXCEPT !.todo = IF call'.status = "ok" THEN run.todo \ {stage} ELSE {}]

NoOutputs == [f \in PcaFiles |-> NoFile]

NoRun == [todo |-> {}, overwrite |-> FALSE]

\* The arguments of the runs Spec follows: one reference matrix, one sample
\* list of each kind and one target panel, under every choice of the stage
\* toggles and of --overwrite.
MainRefMts == {"refA", "missing"}

\* parse_args: the stage toggles and --overwrite; a run starts when none is
\* under way.
main_args ==
    /\ run.todo = {}
    /\ \E toggles \in SUBSET Stages, overwrite \in BOOLEAN :
          run' = [todo |-> toggles, overwrite |-> overwrite]
    /\ call' = NoCall
    /\ UNCHANGED <<pass_mt, pass_unrel_mt, intersect_out, prune_out, pca_out>>

main_ref_filtering ==
    /\ run.todo # {} /\ NextStage(run.todo) = 1
    /\ \E ref \in MainRefMts : ref_filtering(ref, "U1", "O1", run.overwrite)
    /\ Continue(1)

main_intersection ==
    /\ run.todo # {} /\ NextStage(run.todo) = 2
    /\ intersect_target_ref("P38", "grch38", run.overwrite)
    /\ Continue(2)

main_ld_prune_filter ==
    /\ run.todo # {} /\ NextStage(run.todo) = 3
    /\ ld_prune_filter(run.overwrite)
    /\ Continue(3)

main_pca ==
    /\ run.todo # {} /\ NextStage(run.todo) = 4
    /\ \E found \in BOOLEAN : run_pca(run.overwrite, found)
    /\ Continue(4)

Init ==
    /\ pass_mt = NoFile
    /\ pass_unrel_mt = NoFile
    /\ intersect_out = NoFile
    /\ prune_out = NoFile
    /\ pca_out = NoOutputs
    /\ call = NoCall
    /\ run = NoRun

Next ==
    \/ main_args
    \/ main_ref_filtering
    \/ main_intersection
    \/ main_ld_prune_filter
    \/ main_pca

Spec == Init /\ [][Next]_vars

(***************************************************************************)
(* Runs of main with one of the first two toggles set, over every          *)
(* reference matrix, sample list, target panel and assembly label.         *)
(***************************************************************************)
only_ref_filtering ==
    /\ \E ref \in RefMts, unrel \in UnrelMts, outliers \in OutlierTables, overwrite \in BOOLEAN :
          ref_filtering(ref, unrel, outliers, overwrite)
    /\ UNCHANGED run

only_intersection ==
    /\ \E snp_list \in SnpLists, label \in Labels, overwrite \in BOOLEAN :
          intersect_target_ref(snp_list, label, overwrite)
    /\ UNCHANGED run

NextCheckpoints == only_ref_filtering \/ only_intersection

SpecCheckpoints == Init /\ [][NextCheckpoints]_vars

(***************************************************************************)
(* Runs of main with one of the last two toggles set, from every           *)
(* intersected matrix of at most MaxRows rows.                             *)
(***************************************************************************)
MaxRows == 3

\* The column sets ref_filtering leaves under refA and under refB, and a
\* matrix of fewer than k samples.
ColumnSets == {{"S2", "S4", "G"}, {"S2", "G"}, {"S1", "S2", "S3", "S4", "S5"}}

\* A pruned matrix supplied at --prune_out rather than written by ld_prune_filter.
SuppliedPruned == Mt({1, 10}, {"S2", "S4", "G"})

\* The intersected matrices the runs start from: row 4 fails the variant
\* filters of ref_filtering and never reaches the intersection.
SuppliedIntersected ==
    {Mt(rows, cols) : rows \in {r \in SUBSET (Variants \ {4}) : Cardinality(r) <= MaxRows},
                      cols \in ColumnSets}

InitPrune ==
    /\ pass_mt = NoFile
    /\ pass_unrel_mt = NoFile
    /\ \/ intersect_out \in SuppliedIntersected /\ prune_out = NoFile
       \/ intersect_out = NoFile /\ prune_out = SuppliedPruned
    /\ pca_out = NoOutputs
    /\ call = NoCall
    /\ run = NoRun

only_ld_prune_filter ==
    /\ \E overwrite \in BOOLEAN : ld_prune_filter(overwrite)
    /\ UNCHANGED run

only_pca ==
    /\ \E overwrite \in BOOLEAN, found \in BOOLEAN : run_pca(overwrite, found)
    /\ UNCHANGED run

NextPrune == only_ld_prune_filter \/ only_pca

SpecPrune == InitPrune /\ [][NextPrune]_vars

(***************************************************************************)
(* The claims of the specification                                         *)
(***************************************************************************)
\* What each stage computes from its inputs when it reads no checkpoint.
FreshQcPassed(ref) == Mt(RefMatrix.rows, QcPassCols(ref, RefMatrix.cols))

\* The input a stage reads first is there.
InputExists(stage, made) ==
    CASE stage = 1 -> made.ref # "missing"
      [] stage = 2 -> pass_unrel_mt.exists
      [] stage = 3 -> intersect_out.exists
      [] OTHER     -> prune_out.exists

\* C1: after ref_filtering returns, every sample of pass_unrel_mt has no QC
\* failure outside those the reference matrix of the call exempts, is in the
\* unrelated list of the call and not in its outlier list, and every variant of
\* pass_unrel_mt has an empty filters set.
QcFilterSafety ==
    (call.stage = 1 /\ call.status = "ok") =>
        /\ \A s \in pass_unrel_mt.cols :
              /\ QcMetricsFilters[s] \ bad_sample_filters(call.ref) = {}
              /\ s \in UnrelCols(call.unrel)
              /\ s \notin OutlierIds(call.outliers)
        /\ \A v \in pass_unrel_mt.rows : VariantFilters[v] = {}

\* C2: after intersect_target_ref returns under a recognised assembly label,
\* intersect_out holds exactly the variants of pass_unrel_mt whose key (locus,
\* alleles) is a key of the target panel of the call (lifted over to GRCh38 for
\* a GRCh37 panel), with the samples of pass_unrel_mt.
PanelSemiJoin ==
    (call.stage = 2 /\ call.status = "ok" /\ lower(call.label) \in {"grch37", "grch38"}) =>
        /\ intersect_out.exists
        /\ intersect_out.cols = pass_unrel_mt.cols
        /\ intersect_out.rows =
              {v \in pass_unrel_mt.rows :
                  RowKey(v) \in (IF lower(call.label) = "grch38"
                                 THEN Keys38(call.snp_list) ELSE Keys37(call.snp_list))}

\* C3: a call of intersect_target_ref whose assembly label is neither grch37
\* nor grch38 in any letter case fails and leaves intersect_out as it was.
UnknownAssemblyFails ==
    [][(call'.stage = 2 /\ lower(call'.label) \notin {"grch37", "grch38"}) =>
          (call'.status # "ok" /\ intersect_out' = intersect_out)]_vars

\* C4: a stage whose output checkpoint exists and whose inputs are there, run
\* with overwrite unset, returns with the checkpoint as it was; a stage that
\* returns with overwrite set leaves its checkpoints freshly computed from its
\* inputs.
OverwriteSemantics ==
    [][/\ (/\ call'.stage = 1 /\ ~call'.overwrite /\ pass_unrel_mt.exists
           /\ call'.ref # "missing" /\ call'.unrel # "missing") =>
              (call'.status = "ok" /\ pass_unrel_mt' = pass_unrel_mt /\ pass_mt' = pass_mt)
       /\ (/\ call'.stage = 2 /\ ~call'.overwrite /\ intersect_out.exists
           /\ pass_unrel_mt.exists) =>
              (call'.status = "ok" /\ intersect_out' = intersect_out)
       /\ (/\ call'.stage = 3 /\ ~call'.overwrite /\ prune_out.exists
           /\ intersect_out.exists) =>
              (call'.status = "ok" /\ prune_out' = prune_out)
       /\ (/\ call'.stage = 4 /\ ~call'.overwrite /\ pca_out["scores.ht"].exists
           /\ prune_out.exists) =>
              (call'.status = "ok" /\ pca_out' = pca_out)
       /\ (call'.stage = 1 /\ call'.overwrite /\ call'.status = "ok") =>
              /\ pass_mt' = FreshQcPassed(call'.ref)
              /\ pass_unrel_mt' =
                    UnrelNonOutliers(FreshQcPassed(call'.ref), call'.unrel, call'.outliers)
       /\ (call'.stage = 2 /\ call'.overwrite /\ call'.status = "ok") =>
              intersect_out' = Intersected(pass_unrel_mt, call'.snp_list, call'.label)
       /\ (call'.stage = 3 /\ call'.overwrite /\ call'.status = "ok") =>
              /\ prune_out'.exists /\ prune_out'.cols = intersect_out.cols
              /\ prune_out'.rows \in ld_prune(FrequencyFiltered(intersect_out).rows,
                                              intersect_out.cols)
       /\ (call'.stage = 4 /\ call'.overwrite /\ call'.status = "ok") =>
              pca_out' = [f \in PcaFiles |-> PcaOf(prune_out)]
      ]_vars

\* C5: within a run of main a stage runs only when its toggle is set, no stage
\* whose toggle is set and that comes before it is still to run, and every stage
\* run before it in this run returned; the stage that follows its predecessor
\* finds the predecessor's checkpoint written; a stage whose input is missing
\* fails and writes nothing, and a stage that fails ends the run.
StageOrdering ==
    [][call'.stage \in Stages =>
          /\ call'.stage \in run.todo
          /\ \A j \in run.todo : call'.stage <= j
          /\ call.status = "ok" /\ call.stage < call'.stage
          /\ (call.stage >= 1 /\ call'.stage = call.stage + 1) =>
                InputExists(call'.stage, call')
          /\ ~InputExists(call'.stage, call') =>
                /\ call'.status # "ok"
                /\ UNCHANGED <<pass_mt, pass_unrel_mt, intersect_out, prune_out, pca_out>>
          /\ call'.status # "ok" => run'.todo = {}
      ]_vars

\* A run of main with the last two toggles still set, after the intersection
\* stage of the same run returned with its checkpoint written.
PipelineUnderWay ==
    /\ run.todo = {3, 4}
    /\ call.stage = 2 /\ call.status = "ok"
    /\ intersect_out.exists

\* C6: a stage that fails leaves every output as it was before the stage began.
FailureLeavesNoOutput ==
    [][(call'.stage \in Stages /\ call'.status # "ok") =>
          UNCHANGED <<pass_mt, pass_unrel_mt, intersect_out, prune_out, pca_out>>]_vars

\* C7: every variant of the matrix ld_prune_filter writes has an alternate
\* allele frequency, over the samples of the matrix, strictly above 0.001 and
\* strictly below 0.999.
FrequencyOpenInterval ==
    (call.stage = 3 /\ call.status = "ok") =>
        \A v \in prune_out.rows :
            /\ 1000 * AltCount(v, prune_out.cols) > AN(v, prune_out.cols)
            /\ 1000 * AltCount(v, prune_out.cols) < 999 * AN(v, prune_out.cols)

\* ld_prune_filter returned on a matrix with variant 5 at an alternate allele
\* frequency of exactly 0.001 and variant 6 at exactly 0.999, and wrote a matrix
\* with rows but without those two.
BoundaryVariantDropped ==
    /\ call.stage = 3 /\ call.status = "ok"
    /\ {5, 6} \subseteq intersect_out.rows
    /\ 1000 * AltCount(5, intersect_out.cols) = AN(5, intersect_out.cols)
    /\ 1000 * AltCount(6, intersect_out.cols) = 999 * AN(6, intersect_out.cols)
    /\ 5 \notin prune_out.rows /\ 6 \notin prune_out.rows
    /\ prune_out.rows # {}

\* The variants of mt that have calls with variance among them and an alternate
\* allele frequency strictly between 0.001 and 0.999.
Candidates(mt) ==
    {v \in mt.rows :
        /\ ~Constant(v, mt.cols)
        /\ 1000 * AltCount(v, mt.cols) > AN(v, mt.cols)
        /\ 1000 * AltCount(v, mt.cols) < 999 * AN(v, mt.cols)}

\* Two variants of one contig at most 500000 base pairs apart with r2 >= 0.8.
InLD(u, v, cols) ==
    /\ u # v
    /\ Contig[u] = Contig[v]
    /\ Abs(Position[u] - Position[v]) <= 500000
    /\ R2AtLeast(u, v, cols, 4, 5)

\* C8: in the matrix ld_prune_filter writes, any two variants of one contig at
\* most 500000 base pairs apart have r2 below 0.8; and of two such variants of
\* the intersected matrix with r2 at or above 0.8, neither in LD with any other
\* variant, exactly one is in the matrix written.
LinkageIndependent ==
    (call.stage = 3 /\ call.status = "ok") =>
        /\ \A u \in prune_out.rows : \A v \in prune_out.rows :
              ~InLD(u, v, prune_out.cols)
        /\ \A u \in Candidates(intersect_out) : \A v \in Candidates(intersect_out) :
              (/\ InLD(u, v, intersect_out.cols)
               /\ \A w \in Candidates(intersect_out) \ {u, v} :
                     ~InLD(u, w, intersect_out.cols) /\ ~InLD(v, w, intersect_out.cols)) =>
                 ((u \in prune_out.rows) # (v \in prune_out.rows))

\* ld_prune_filter returned on a matrix with variants 1 and 3, 100 base pairs
\* apart and with r2 >= 0.8, and wrote a matrix with the first and not the second.
OneOfPairRetained ==
    /\ call.stage = 3 /\ call.status = "ok"
    /\ {1, 3} \subseteq Candidates(intersect_out)
    /\ Position[3] - Position[1] = 100
    /\ InLD(1, 3, intersect_out.cols)
    /\ 1 \in prune_out.rows /\ 3 \notin prune_out.rows

\* C9: a call of run_pca on a pruned matrix with fewer samples than k, or with
\* a variant without genotype variance, fails and writes no output.
DegenerateInputFails ==
    [][(/\ call'.stage = 4 /\ prune_out.exists
        /\ \/ NSamples(prune_out) < k
           \/ \E v \in prune_out.rows : Constant(v, prune_out.cols)) =>
          (call'.status # "ok" /\ pca_out' = pca_out)]_vars

\* C10: a stage run with overwrite unset that returns a checkpoint it read in
\* place of computing returns what it would compute from the inputs of the call:
\* a checkpoint written under another reference matrix, panel or assembly label
\* is never returned as the result.
StaleCheckpointRefused ==
    (call.reused /\ ~call.overwrite /\ call.status = "ok") =>
        /\ call.stage = 1 => pass_mt = FreshQcPassed(call.ref)
        /\ call.stage = 2 =>
              intersect_out = Intersected(pass_unrel_mt, call.snp_list, call.label)

====
